---- MODULE Spec2Model ----
(***************************************************************************)
(* A model of scripts/main.py of gemini-image-skill: the prompt composer,  *)
(* the two request functions (request assembly, remote call, response      *)
(* drain) and the driver main().                                           *)
(*                                                                         *)
(* Three specifications share the definitions:                             *)
(*   Spec          main() run on one command line, start to end;           *)
(*   SpecAssemble  the two request functions called directly, on long      *)
(*                 reference lists;                                        *)
(*   SpecCompose   apply_subject_to_template called directly.              *)
(***************************************************************************)
EXTENDS Naturals, Sequences, FiniteSets

VARIABLES
    env_key,                \* GOOGLE_AI_API_KEY is set in the environment
    parsed_args,            \* argparse result: prompts, style, edit, references, aspect
    disk,                   \* the input image paths that exist on disk
    pc,                     \* main(): "start", "dispatch", "batch", "returned", "raised"
    diag,                   \* the diagnostic main() printed before an early return
    processed_prompts,      \* main(): processed_prompts
    reference_image_paths,  \* main(): reference_image_paths (None is <<>>)
    aspect,                 \* main(): parsed_args.aspect after defaulting
    batch_index,            \* main(): batch_index of the last batch item started
    args,                   \* the arguments of the latest request-function call
    calls,                  \* the remote calls issued so far, in order
    writes,                 \* the files opened "wb" and written so far, in order
    response,               \* what the remote service answered to the latest call
    printed,                \* what the latest request-function call printed
    saved,                  \* the bytes the latest request-function call wrote
    result,                 \* how the latest request-function call ended
    prompt_template,        \* apply_subject_to_template: argument
    subject_content,        \* apply_subject_to_template: argument
    rendered                \* apply_subject_to_template: outcome

vars == <<env_key, parsed_args, disk, pc, diag, processed_prompts,
          reference_image_paths, aspect, batch_index, args, calls, writes,
          response, printed, saved, result, prompt_template, subject_content,
          rendered>>

call_vars == <<args, calls, writes, response, printed, saved, result>>

compose_vars == <<prompt_template, subject_content, rendered>>

(***************************************************************************)
(* Bounds of the model.                                                    *)
(***************************************************************************)
MaxTemplateLen == 4     \* characters of a template (SpecCompose)
MaxSubjectLen == 2      \* characters of a subject (SpecCompose)
MaxRefs == 15           \* --ref paths given to a request function (SpecAssemble)
MaxMissing == 2         \* of which do not exist on disk (SpecAssemble)
MaxSubjects == 3        \* positional prompts on the command line (Spec)
MaxRefArgs == 1         \* --ref options on the command line (Spec)
MaxChunks == 2          \* chunks of a streamed response

(***************************************************************************)
(* Strings are sequences of characters. The alphabet is the two brace      *)
(* characters, the letter a, and the word subject taken as one character   *)
(* (no claim looks inside it).                                             *)
(***************************************************************************)
Chars == {"{", "}", "subject", "a"}

Token == <<"{", "subject", "}">>

Strings(n) == UNION {[1..k -> Chars] : k \in 0..n}

\* needle in haystack (Python's substring test)
Contains(haystack, needle) ==
    \E i \in 1..(Len(haystack) + 1 - Len(needle)) :
        SubSeq(haystack, i, i + Len(needle) - 1) = needle

Raised(kind) == [ok |-> FALSE, text |-> <<>>, err |-> kind]

Returned(text) == [ok |-> TRUE, text |-> text, err |-> "none"]

\* The index of the first brace at or after i, 0 when there is none.
RECURSIVE NextBrace(_, _)
NextBrace(t, i) ==
    IF i > Len(t) THEN 0
    ELSE IF t[i] \in {"{", "}"} THEN i
    ELSE NextBrace(t, i + 1)

(***************************************************************************)
(* str.format(subject=s) on t, from index i, with out already produced:    *)
(* "{{" and "}}" are escapes, a lone brace is a ValueError, a field ends   *)
(* at the next "}", a "{" inside a field name is a ValueError, the field   *)
(* named subject is replaced by s (which is not parsed again), the empty   *)
(* field is positional argument 0 (IndexError), any other name a KeyError. *)
(***************************************************************************)
RECURSIVE FormatFrom(_, _, _, _)
FormatFrom(t, i, s, out) ==
    IF i > Len(t) THEN Returned(out)
    ELSE IF t[i] = "{" THEN
        IF i = Len(t) THEN Raised("ValueError")
        ELSE IF t[i + 1] = "{" THEN FormatFrom(t, i + 2, s, Append(out, "{"))
        ELSE LET j == NextBrace(t, i + 1) IN
            IF j = 0 THEN Raised("ValueError")
            ELSE IF t[j] = "{" THEN Raised("ValueError")
            ELSE IF j = i + 1 THEN Raised("IndexError")
            ELSE IF SubSeq(t, i + 1, j - 1) = <<"subject">>
                 THEN FormatFrom(t, j + 1, s, out \o s)
            ELSE Raised("KeyError")
    ELSE IF t[i] = "}" THEN
        IF i = Len(t) THEN Raised("ValueError")
        ELSE IF t[i + 1] = "}" THEN FormatFrom(t, i + 2, s, Append(out, "}"))
        ELSE Raised("ValueError")
    ELSE FormatFrom(t, i + 1, s, Append(out, t[i]))

Format(t, s) == FormatFrom(t, 1, s, <<>>)

\* A mutant of apply_subject_to_template: the subject is put after the template.
ApplyAppended(template, subject) ==
    IF Contains(template, Token) THEN Returned(template \o subject)
    ELSE Returned(subject \o <<".", " ">> \o template)

apply_subject_to_template(template, subject) ==
    IF Contains(template, Token) THEN Format(template, subject)
    ELSE Returned(subject \o <<".", " ">> \o template)

(***************************************************************************)
(* Style documents. The regular expression of load_gemini_style_template   *)
(* is not modelled: a document either has a "Template" header followed by  *)
(* a fenced block (has_template, with the block's stripped text) or not.   *)
(* The text may hold the bracket placeholder "[SUBJECT]" as one character. *)
(***************************************************************************)
RECURSIVE Normalize(_)
Normalize(raw) ==
    IF raw = <<>> THEN <<>>
    ELSE (IF Head(raw) = "[SUBJECT]" THEN Token ELSE <<Head(raw)>>)
         \o Normalize(Tail(raw))

load_gemini_style_template(doc) ==
    IF ~doc.exists THEN Raised("FileNotFoundError")
    ELSE IF ~doc.has_template THEN Raised("ValueError")
    ELSE Returned(Normalize(doc.template))

(***************************************************************************)
(* Paths. Input images are numbers: 0 is the --edit source, 1, 2, ... are  *)
(* the --ref paths. An output path is its stem and suffix.                 *)
(***************************************************************************)
SourcePath == 0

OutputPath == [stem |-> <<"out">>, suffix |-> ".png"]

NumberedPath(path, index) == [path EXCEPT !.stem = @ \o <<"_", index>>]

Min(a, b) == IF a < b THEN a ELSE b

(***************************************************************************)
(* Request assembly. A part of a request is [text |-> prompt] or           *)
(* [image |-> path].                                                       *)
(***************************************************************************)
MAX_EDIT_REFS == 13

MAX_GENERATE_REFS == 14

\* A mutant of TruncatedRefs: the slice keeps the tail of the list.
TruncatedTail(refs, budget) ==
    SubSeq(refs, Len(refs) + 1 - Min(budget, Len(refs)), Len(refs))

\* refs[:budget]
TruncatedRefs(refs, budget) == SubSeq(refs, 1, Min(budget, Len(refs)))

\* A mutant of AppendReferences: a missing reference ends the loop.
RECURSIVE StopAtMissing(_, _, _)
StopAtMissing(refs, i, acc) ==
    IF i > Len(refs) THEN acc
    ELSE IF refs[i] \in disk
         THEN StopAtMissing(refs, i + 1,
                  [acc EXCEPT !.contents = Append(@, [image |-> refs[i]])])
    ELSE [acc EXCEPT !.printed = Append(@, [warning |-> refs[i]])]

\* The loop over the sliced references: an existing one is appended to the
\* contents, a missing one is warned about.
RECURSIVE AppendReferences(_, _, _)
AppendReferences(refs, i, acc) ==
    IF i > Len(refs) THEN acc
    ELSE IF refs[i] \in disk
         THEN AppendReferences(refs, i + 1,
                  [acc EXCEPT !.contents = Append(@, [image |-> refs[i]])])
    ELSE AppendReferences(refs, i + 1,
             [acc EXCEPT !.printed = Append(@, [warning |-> refs[i]])])

(***************************************************************************)
(* Responses. A unit (the composite result, or one chunk of a stream) is   *)
(* null when candidates, content or parts is None, and else holds parts,   *)
(* each "text" or "image" (none, one or two of them). The bytes of an      *)
(* image part and the words of a text part are named by the part's         *)
(* position <<unit, part>>. A failing remote call raises when it is made.  *)
(***************************************************************************)
PartSeqs == {<<>>, <<"text">>, <<"image">>, <<"text", "image">>, <<"image", "image">>}

Units == {[null |-> TRUE, parts |-> <<>>]}
         \cup {[null |-> FALSE, parts |-> p] : p \in PartSeqs}

RemoteError == [error |-> TRUE, units |-> <<>>]

NoResponse == [error |-> FALSE, units |-> <<>>]

CompositeResponses ==
    {RemoteError} \cup {[error |-> FALSE, units |-> <<u>>] : u \in Units}

StreamResponses ==
    {RemoteError}
    \cup {[error |-> FALSE, units |-> s] :
            s \in UNION {[1..k -> Units] : k \in 0..MaxChunks}}

NoData == <<0, 0>>

\* for response_part in parts: the first image part is written and ends the
\* function, a text part is printed.
RECURSIVE DrainParts(_, _, _, _)
DrainParts(parts, i, dest, acc) ==
    IF i > Len(parts) THEN acc
    ELSE IF parts[i] = "image"
         THEN [status |-> "saved", data |-> <<1, i>>,
               printed |-> Append(acc.printed, [saved |-> dest])]
    ELSE DrainParts(parts, i + 1, dest,
             [acc EXCEPT !.printed = Append(@, [text |-> <<1, i>>])])

\* if candidates and content and parts: for ...
DrainComposite(unit, dest, already) ==
    IF unit.null \/ unit.parts = <<>>
    THEN [status |-> "no_image", data |-> NoData, printed |-> already]
    ELSE DrainParts(unit.parts, 1, dest,
             [status |-> "no_image", data |-> NoData, printed |-> already])

\* for response_chunk in stream: a null chunk is skipped, parts[0] of any
\* other is looked at (IndexError when parts is empty).
RECURSIVE DrainStream(_, _, _, _)
DrainStream(units, u, dest, acc) ==
    IF u > Len(units) THEN acc
    ELSE IF units[u].null THEN DrainStream(units, u + 1, dest, acc)
    ELSE IF units[u].parts = <<>> THEN [acc EXCEPT !.status = "raised"]
    ELSE IF units[u].parts[1] = "image"
         THEN [status |-> "saved", data |-> <<u, 1>>,
               printed |-> Append(acc.printed, [saved |-> dest])]
    ELSE DrainStream(units, u + 1, dest,
             [acc EXCEPT !.printed = Append(@, [text |-> <<u, 1>>])])

(***************************************************************************)
(* The two request functions. Each is the whole function as one step: the  *)
(* contents are built, the remote call is issued and answered by resp, and *)
(* the response is drained. The outcome is what the step does to the       *)
(* world: the call issued (if any), what was printed, what was written.    *)
(***************************************************************************)
NotIssued(status, lines) ==
    [issued |-> FALSE, call |-> [api |-> "none", contents |-> <<>>, aspect |-> "unset"],
     status |-> status, data |-> NoData, printed |-> lines]

Issued(call, out) ==
    [issued |-> TRUE, call |-> call,
     status |-> out.status, data |-> out.data, printed |-> out.printed]

\* A mutant of edit_existing_image_with_gemini: the source image is appended
\* after the references.
EditSourceLast(source, instruction, dest, refs, resp) ==
    IF source \notin disk THEN NotIssued("raised", <<>>)
    ELSE LET built == AppendReferences(TruncatedRefs(refs, MAX_EDIT_REFS), 1,
                          [contents |-> <<[text |-> instruction]>>,
                           printed |-> <<>>])
             call == [api |-> "generate_content",
                      contents |-> Append(built.contents, [image |-> source]),
                      aspect |-> "unset"]
         IN  Issued(call,
                 IF resp.error
                 THEN [status |-> "raised", data |-> NoData, printed |-> built.printed]
                 ELSE DrainComposite(resp.units[1], dest, built.printed))

edit_existing_image_with_gemini(source, instruction, dest, refs, resp) ==
    IF source \notin disk THEN NotIssued("raised", <<>>)    \* Image.open raises
    ELSE LET built == AppendReferences(TruncatedRefs(refs, MAX_EDIT_REFS), 1,
                          [contents |-> <<[text |-> instruction], [image |-> source]>>,
                           printed |-> <<>>])
             call == [api |-> "generate_content", contents |-> built.contents,
                      aspect |-> "unset"]
         IN  Issued(call,
                 IF resp.error
                 THEN [status |-> "raised", data |-> NoData, printed |-> built.printed]
                 ELSE DrainComposite(resp.units[1], dest, built.printed))

generate_new_image_with_gemini(prompt, dest, refs, ratio, resp) ==
    IF refs # <<>>
    THEN LET built == AppendReferences(TruncatedRefs(refs, MAX_GENERATE_REFS), 1,
                          [contents |-> <<[text |-> prompt]>>, printed |-> <<>>])
             call == [api |-> "generate_content", contents |-> built.contents,
                      aspect |-> "unset"]
         IN  Issued(call,
                 IF resp.error
                 THEN [status |-> "raised", data |-> NoData, printed |-> built.printed]
                 ELSE DrainComposite(resp.units[1], dest, built.printed))
    ELSE LET call == [api |-> "generate_content_stream",
                      contents |-> <<[text |-> prompt]>>, aspect |-> ratio]
         IN  Issued(call,
                 IF resp.error
                 THEN [status |-> "raised", data |-> NoData, printed |-> <<>>]
                 ELSE DrainStream(resp.units, 1, dest,
                          [status |-> "no_image", data |-> NoData, printed |-> <<>>]))

\* The responses the call of generate_new_image_with_gemini can get.
GenerateResponses(refs) ==
    IF refs # <<>> THEN CompositeResponses ELSE StreamResponses

NoArgs == [fn |-> "none", prompt |-> <<>>, dest |-> OutputPath, refs |-> <<>>,
           ratio |-> "unset"]

\* What a call of a request function, with outcome eff, does to the state.
Perform(fnargs, resp, eff) ==
    /\ args' = fnargs
    /\ calls' = IF eff.issued THEN Append(calls, eff.call) ELSE calls
    /\ response' = IF eff.issued THEN resp ELSE NoResponse
    /\ printed' = eff.printed
    /\ saved' = eff.data
    /\ result' = eff.status
    /\ writes' = IF eff.status = "saved"
                 THEN Append(writes, [call |-> Len(calls) + 1, path |-> fnargs.dest])
                 ELSE writes

EditArgs(instruction, dest, refs) ==
    [fn |-> "edit", prompt |-> instruction, dest |-> dest, refs |-> refs,
     ratio |-> "unset"]

GenerateArgs(prompt, dest, refs, ratio) ==
    [fn |-> "generate", prompt |-> prompt, dest |-> dest, refs |-> refs,
     ratio |-> ratio]

(***************************************************************************)
(* main(): the command line and the environment it starts from.            *)
(***************************************************************************)
NoDoc == [exists |-> FALSE, has_template |-> FALSE, template |-> <<>>,
          infographic |-> FALSE]

StyleDocs ==
    { NoDoc,                                                \* no such file
      [exists |-> TRUE, has_template |-> FALSE, template |-> <<>>,
       infographic |-> FALSE],                              \* no template section
      [exists |-> TRUE, has_template |-> TRUE, template |-> <<>>,
       infographic |-> FALSE],                              \* an empty code block
      [exists |-> TRUE, has_template |-> TRUE, template |-> <<"a", "[SUBJECT]">>,
       infographic |-> FALSE],
      [exists |-> TRUE, has_template |-> TRUE, template |-> <<"a", "a">>,
       infographic |-> TRUE],                               \* no placeholder
      [exists |-> TRUE, has_template |-> TRUE,
       template |-> <<"{", "a", "}", "{", "subject", "}">>,
       infographic |-> FALSE] }                             \* another brace field

StyleArgs == {[given |-> FALSE, doc |-> NoDoc]}
             \cup {[given |-> TRUE, doc |-> d] : d \in StyleDocs}

AspectArgs == {"none", "21:9"}

\* The i-th positional prompt: i letters, so that no two are equal.
Subject(i) == [j \in 1..i |-> "a"]

Ascending(n) == [i \in 1..n |-> i]

Descending(n) == [i \in 1..n |-> n + 1 - i]

CommandLines ==
    [prompts : {[i \in 1..n |-> Subject(i)] : n \in 1..MaxSubjects},
     style : StyleArgs,
     edit : BOOLEAN,
     references : {Ascending(n) : n \in 0..MaxRefArgs},
     aspect : AspectArgs]

NotCalled == [ok |-> FALSE, text |-> <<>>, err |-> "not_called"]

MainLocalsInit ==
    /\ diag = "none"
    /\ processed_prompts = <<>>
    /\ reference_image_paths = <<>>
    /\ aspect = "unset"
    /\ batch_index = 0

CallInit ==
    /\ args = NoArgs
    /\ calls = <<>>
    /\ writes = <<>>
    /\ response = NoResponse
    /\ printed = <<>>
    /\ saved = NoData
    /\ result = "none"

ComposeInit ==
    /\ prompt_template = <<>>
    /\ subject_content = <<>>
    /\ rendered = NotCalled

Init ==
    /\ env_key \in BOOLEAN
    /\ parsed_args \in CommandLines
    /\ disk \in SUBSET ((IF parsed_args.edit THEN {SourcePath} ELSE {})
                        \cup (1..Len(parsed_args.references)))
    /\ pc = "start"
    /\ MainLocalsInit
    /\ CallInit
    /\ ComposeInit

(***************************************************************************)
(* main() up to the dispatch: the credential, the style template, the      *)
(* default aspect ratio, the prompts, the reference paths, the edit source.*)
(***************************************************************************)
main_setup ==
    LET style == parsed_args.style
        loaded == IF style.given THEN load_gemini_style_template(style.doc)
                  ELSE Returned(<<>>)
        is_infographic_style == style.given /\ loaded.ok /\ style.doc.infographic
        ratio == IF parsed_args.aspect # "none" THEN parsed_args.aspect
                 ELSE IF is_infographic_style THEN "16:9" ELSE "1:1"
        composed == [i \in 1..Len(parsed_args.prompts) |->
                        apply_subject_to_template(loaded.text, parsed_args.prompts[i])]
        templated == loaded.text # <<>>
        prompts == IF templated
                   THEN [i \in 1..Len(parsed_args.prompts) |-> composed[i].text]
                   ELSE parsed_args.prompts
    IN  /\ pc = "start"
        /\ IF ~env_key
           THEN /\ pc' = "returned"
                /\ diag' = "no_key"
                /\ UNCHANGED <<processed_prompts, reference_image_paths, aspect>>
           ELSE IF ~loaded.ok
           THEN /\ pc' = "returned"
                /\ diag' = "style_error"
                /\ UNCHANGED <<processed_prompts, reference_image_paths, aspect>>
           ELSE IF templated /\ \E i \in 1..Len(composed) : ~composed[i].ok
           THEN /\ pc' = "raised"
                /\ aspect' = ratio
                /\ UNCHANGED <<diag, processed_prompts, reference_image_paths>>
           ELSE /\ processed_prompts' = prompts
                /\ reference_image_paths' = parsed_args.references
                /\ aspect' = ratio
                /\ IF parsed_args.edit /\ SourcePath \notin disk
                   THEN pc' = "returned" /\ diag' = "no_source"
                   ELSE pc' = "dispatch" /\ diag' = diag
        /\ UNCHANGED <<env_key, parsed_args, disk, batch_index>>
        /\ UNCHANGED call_vars
        /\ UNCHANGED compose_vars

AfterCall(status, last) ==
    IF status = "raised" THEN "raised" ELSE IF last THEN "returned" ELSE "batch"

\* A mutant of main_edit: the edit request is built from the last prompt.
MainEditLastPrompt ==
    /\ pc = "dispatch"
    /\ parsed_args.edit
    /\ \E resp \in CompositeResponses :
        LET last_prompt == processed_prompts[Len(processed_prompts)]
            eff == edit_existing_image_with_gemini(SourcePath, last_prompt,
                       OutputPath, reference_image_paths, resp)
        IN  /\ Perform(EditArgs(last_prompt, OutputPath, reference_image_paths),
                       resp, eff)
            /\ pc' = AfterCall(eff.status, TRUE)
    /\ UNCHANGED <<env_key, parsed_args, disk, diag, processed_prompts,
                   reference_image_paths, aspect, batch_index>>
    /\ UNCHANGED compose_vars

\* if parsed_args.edit: the edit request, from the first prompt
main_edit ==
    /\ pc = "dispatch"
    /\ parsed_args.edit
    /\ \E resp \in CompositeResponses :
        LET eff == edit_existing_image_with_gemini(SourcePath, processed_prompts[1],
                       OutputPath, reference_image_paths, resp)
        IN  /\ Perform(EditArgs(processed_prompts[1], OutputPath,
                           reference_image_paths), resp, eff)
            /\ pc' = AfterCall(eff.status, TRUE)
    /\ UNCHANGED <<env_key, parsed_args, disk, diag, processed_prompts,
                   reference_image_paths, aspect, batch_index>>
    /\ UNCHANGED compose_vars

\* elif len(processed_prompts) == 1: one generation, to the given path
main_single ==
    /\ pc = "dispatch"
    /\ ~parsed_args.edit
    /\ Len(processed_prompts) = 1
    /\ \E resp \in GenerateResponses(reference_image_paths) :
        LET eff == generate_new_image_with_gemini(processed_prompts[1], OutputPath,
                       reference_image_paths, aspect, resp)
        IN  /\ Perform(GenerateArgs(processed_prompts[1], OutputPath,
                           reference_image_paths, aspect), resp, eff)
            /\ pc' = AfterCall(eff.status, TRUE)
    /\ UNCHANGED <<env_key, parsed_args, disk, diag, processed_prompts,
                   reference_image_paths, aspect, batch_index>>
    /\ UNCHANGED compose_vars

\* else: one iteration of the batch loop
main_batch ==
    /\ pc \in {"dispatch", "batch"}
    /\ ~parsed_args.edit
    /\ Len(processed_prompts) > 1
    /\ batch_index < Len(processed_prompts)
    /\ batch_index' = batch_index + 1
    /\ \E resp \in GenerateResponses(reference_image_paths) :
        LET index == batch_index + 1
            numbered_output_path == NumberedPath(OutputPath, index)
            eff == generate_new_image_with_gemini(processed_prompts[index],
                       numbered_output_path, reference_image_paths, aspect, resp)
        IN  /\ Perform(GenerateArgs(processed_prompts[index], numbered_output_path,
                           reference_image_paths, aspect), resp, eff)
            /\ pc' = AfterCall(eff.status, index = Len(processed_prompts))
    /\ UNCHANGED <<env_key, parsed_args, disk, diag, processed_prompts,
                   reference_image_paths, aspect>>
    /\ UNCHANGED compose_vars

Next == main_setup \/ main_edit \/ main_single \/ main_batch

Spec == Init /\ [][Next]_vars

(***************************************************************************)
(* SpecAssemble: a reference list and the files behind it are arranged,    *)
(* then one of the two request functions is called on it.                  *)
(***************************************************************************)
RefLists == UNION {{Ascending(n), Descending(n)} : n \in 0..MaxRefs}

HarnessIdle ==
    /\ env_key = TRUE
    /\ parsed_args = [prompts |-> <<Subject(1)>>, style |-> [given |-> FALSE, doc |-> NoDoc],
                      edit |-> FALSE, references |-> <<>>, aspect |-> "none"]
    /\ MainLocalsInit

InitAssemble ==
    /\ HarnessIdle
    /\ pc = "arrange"
    /\ disk = {SourcePath}
    /\ CallInit
    /\ ComposeInit

Arrange ==
    /\ pc = "arrange"
    /\ \E refs \in RefLists :
        \E missing \in SUBSET (1..Len(refs)) :
            /\ Cardinality(missing) <= MaxMissing
            /\ reference_image_paths' = refs
            /\ disk' = ({SourcePath} \cup (1..Len(refs))) \ missing
    /\ pc' = "act"
    /\ UNCHANGED <<env_key, parsed_args, diag, processed_prompts, aspect, batch_index>>
    /\ UNCHANGED call_vars
    /\ UNCHANGED compose_vars

CallEdit ==
    /\ pc = "act"
    /\ \E resp \in CompositeResponses :
        Perform(EditArgs(Subject(1), OutputPath, reference_image_paths), resp,
                edit_existing_image_with_gemini(SourcePath, Subject(1), OutputPath,
                    reference_image_paths, resp))
    /\ pc' = "called"
    /\ UNCHANGED <<env_key, parsed_args, disk, diag, processed_prompts,
                   reference_image_paths, aspect, batch_index>>
    /\ UNCHANGED compose_vars

CallGenerate ==
    /\ pc = "act"
    /\ \E ratio \in AspectArgs \ {"none"}, resp \in GenerateResponses(reference_image_paths) :
        Perform(GenerateArgs(Subject(1), OutputPath, reference_image_paths, ratio), resp,
                generate_new_image_with_gemini(Subject(1), OutputPath,
                    reference_image_paths, ratio, resp))
    /\ pc' = "called"
    /\ UNCHANGED <<env_key, parsed_args, disk, diag, processed_prompts,
                   reference_image_paths, aspect, batch_index>>
    /\ UNCHANGED compose_vars

NextAssemble == Arrange \/ CallEdit \/ CallGenerate

SpecAssemble == InitAssemble /\ [][NextAssemble]_vars

(***************************************************************************)
(* SpecCompose: apply_subject_to_template called on a template and a       *)
(* subject.                                                                *)
(***************************************************************************)
InitCompose ==
    /\ HarnessIdle
    /\ pc = "compose"
    /\ disk = {}
    /\ CallInit
    /\ ComposeInit

Compose ==
    /\ pc = "compose"
    /\ \E template \in Strings(MaxTemplateLen), subject \in Strings(MaxSubjectLen) :
        /\ prompt_template' = template
        /\ subject_content' = subject
        /\ rendered' = apply_subject_to_template(template, subject)
    /\ pc' = "composed"
    /\ UNCHANGED <<env_key, parsed_args, disk, diag, processed_prompts,
                   reference_image_paths, aspect, batch_index>>
    /\ UNCHANGED call_vars

NextCompose == Compose

SpecCompose == InitCompose /\ [][NextCompose]_vars

(***************************************************************************)
(* What the claims speak of.                                               *)
(***************************************************************************)
IsImage(part) == "image" \in DOMAIN part

IsText(part) == "text" \in DOMAIN part

IsWarning(line) == "warning" \in DOMAIN line

LastCall == calls[Len(calls)]

\* The paths of the image parts of a request, in order.
ImagePaths(contents) ==
    LET images == SelectSeq(contents, IsImage)
    IN  [i \in 1..Len(images) |-> images[i].image]

\* The reference images of the latest request, in order.
IncludedRefs ==
    LET paths == ImagePaths(LastCall.contents)
    IN  IF args.fn = "edit" /\ paths # <<>> THEN Tail(paths) ELSE paths

\* The references the latest call may use: the first 13 (edit) or 14 supplied.
Window ==
    LET budget == IF args.fn = "edit" THEN 13 ELSE 14
    IN  SubSeq(args.refs, 1, Min(budget, Len(args.refs)))

OnDisk(path) == path \in disk

PositionIn(seq, x) == CHOOSE k \in 1..Len(seq) : seq[k] = x

CalledOnRefs == args.fn # "none" /\ args.refs # <<>>

----
\* C1: a request never holds more than 14 images: in edit mode the primary
\* image is always there, followed by at most 13 references, in generate mode
\* at most 14 references; no reference beyond the first 13 (edit) or 14
\* (generate) supplied is ever kept, and when those all exist they are
\* exactly the ones kept.
C1_ImageBudget ==
    (args.fn # "none") =>
        /\ calls # <<>>
        /\ Len(ImagePaths(LastCall.contents)) <= 14
        /\ args.fn = "edit" =>
            /\ ImagePaths(LastCall.contents) # <<>>
            /\ ImagePaths(LastCall.contents)[1] = SourcePath
            /\ Len(IncludedRefs) <= 13
        /\ args.fn = "generate" => Len(IncludedRefs) <= 14
        /\ \A i \in 1..Len(IncludedRefs) :
            \E j \in 1..Len(Window) : Window[j] = IncludedRefs[i]
        /\ (\A j \in 1..Len(Window) : OnDisk(Window[j])) => IncludedRefs = Window

\* An edit call on more than 13 references, all on disk: the request holds
\* the prompt and 14 images.
C1_Witness ==
    /\ args.fn = "edit"
    /\ Len(args.refs) > 13
    /\ \A j \in 1..Len(args.refs) : OnDisk(args.refs[j])
    /\ Len(LastCall.contents) = 15

\* C2: a request holds exactly one text part, the prompt, and it is first; in
\* edit mode the primary image is second; the references follow, in the
\* relative order in which the caller supplied them.
C2_PartOrder ==
    (args.fn # "none") =>
        LET contents == LastCall.contents
            first_ref == IF args.fn = "edit" THEN 3 ELSE 2
        IN  /\ calls # <<>>
            /\ contents # <<>>
            /\ contents[1] = [text |-> args.prompt]
            /\ \A i \in 2..Len(contents) : IsImage(contents[i])
            /\ args.fn = "edit" =>
                /\ Len(contents) >= 2
                /\ contents[2] = [image |-> SourcePath]
            /\ \A i \in first_ref..Len(contents) :
                /\ \E k \in 1..Len(args.refs) : args.refs[k] = contents[i].image
                /\ \A j \in first_ref..Len(contents) :
                    i < j => PositionIn(args.refs, contents[i].image)
                             < PositionIn(args.refs, contents[j].image)

\* An edit call on references supplied in descending order, of which at least
\* three are in the request.
C2_Witness ==
    /\ args.fn = "edit"
    /\ Len(args.refs) >= 3
    /\ args.refs[1] > args.refs[2]
    /\ calls # <<>>
    /\ Len(LastCall.contents) >= 5

C4_ShapeFromSurvivors ==
    (args.fn = "generate" /\ calls # <<>>) =>
        /\ ImagePaths(LastCall.contents) # <<>> => LastCall.api = "generate_content"
        /\ ImagePaths(LastCall.contents) = <<>> =>
            /\ LastCall.api = "generate_content_stream"
            /\ LastCall.aspect = args.ratio
            /\ LastCall.aspect # "unset"

----
\* The index of the first image part of parts at or after i, 0 when none.
RECURSIVE FirstImageIn(_, _)
FirstImageIn(parts, i) ==
    IF i > Len(parts) THEN 0
    ELSE IF parts[i] = "image" THEN i
    ELSE FirstImageIn(parts, i + 1)

\* The position of the first image part of a whole response, NoData when none.
RECURSIVE FirstImage(_, _)
FirstImage(units, u) ==
    IF u > Len(units) THEN NoData
    ELSE IF ~units[u].null /\ FirstImageIn(units[u].parts, 1) # 0
         THEN <<u, FirstImageIn(units[u].parts, 1)>>
    ELSE FirstImage(units, u + 1)

\* The latest call was answered, and the function returned.
Drained == calls # <<>> /\ ~response.error /\ result \in {"saved", "no_image"}

WritesOfLastCall == SelectSeq(writes, LAMBDA w : w.call = Len(calls))

\* C5: for both response shapes and any position of the parts, the bytes of
\* the first image part of the whole response are written to the destination
\* path, whatever text parts come before it, and at most one file is written
\* per request.
C5_FirstImageWritten ==
    Drained =>
        /\ saved = FirstImage(response.units, 1)
        /\ Len(WritesOfLastCall) <= 1
        /\ saved # NoData => WritesOfLastCall = <<[call |-> Len(calls), path |-> args.dest]>>

\* The operator is told of a failure: the function raised, or printed an error.
FailureReported ==
    \/ result = "raised"
    \/ \E i \in 1..Len(printed) : "error" \in DOMAIN printed[i]

\* C6: when a response is consumed to its end without an image part, no file
\* is written and the call ends in a reported failure, not a silent return.
C6_NoImageReported ==
    (calls # <<>> /\ ~response.error /\ result # "none"
        /\ FirstImage(response.units, 1) = NoData) =>
        /\ saved = NoData
        /\ WritesOfLastCall = <<>>
        /\ FailureReported

\* main() got through its setup and is generating (no --edit).
Generating ==
    /\ pc \in {"dispatch", "batch", "returned", "raised"}
    /\ processed_prompts # <<>>
    /\ diag = "none"
    /\ ~parsed_args.edit

Ended == pc \in {"returned", "raised"}

\* C7: with N > 1 subjects exactly N remote calls are issued, one after
\* another in input order, the i-th with the i-th prompt and writing only to
\* <stem>_<i><ext>, never to the given path; with N = 1 exactly one call is
\* issued and it writes to the given path.
C7_BatchCalls ==
    Generating =>
        LET N == Len(processed_prompts)
        IN  /\ Len(calls) <= N
            /\ \A i \in 1..Len(calls) :
                calls[i].contents[1] = [text |-> processed_prompts[i]]
            /\ \A k \in 1..Len(writes) :
                writes[k].path = IF N > 1 THEN NumberedPath(OutputPath, writes[k].call)
                                 ELSE OutputPath
            /\ Ended => Len(calls) = N

\* C8: in a batch, an item whose call failed (a remote-call error, or a
\* response without an image) does not end the batch: the items after it
\* are still attempted.
C8_BatchContinues ==
    (Generating /\ Len(processed_prompts) > 1
        /\ calls # <<>>
        /\ (response.error \/ result = "no_image")
        /\ batch_index < Len(processed_prompts)) => ~Ended

\* One of the setup failures of the run: no credential, a style document that
\* is missing or has no template, an --edit source that does not exist.
SetupFailure ==
    \/ ~env_key
    \/ parsed_args.style.given /\ ~load_gemini_style_template(parsed_args.style.doc).ok
    \/ parsed_args.edit /\ SourcePath \notin disk

\* C9: on a setup failure main prints a diagnostic and returns without
\* raising, and no remote call is attempted and no file written in that run.
C9_SetupFailureReturns ==
    (SetupFailure /\ pc # "start") =>
        /\ pc = "returned"
        /\ diag # "none"
        /\ calls = <<>>
        /\ writes = <<>>

----
\* The number of places where needle stands in haystack.
Occurrences(haystack, needle) ==
    Cardinality({i \in 1..(Len(haystack) + 1 - Len(needle)) :
                    SubSeq(haystack, i, i + Len(needle) - 1) = needle})

HasBrace(text) == \E i \in 1..Len(text) : text[i] \in {"{", "}"}

\* t with every token replaced by s, read from the left.
RECURSIVE Substituted(_, _)
Substituted(t, s) ==
    IF t = <<>> THEN <<>>
    ELSE IF Len(t) >= 3 /\ SubSeq(t, 1, 3) = Token
         THEN s \o Substituted(SubSeq(t, 4, Len(t)), s)
    ELSE <<Head(t)>> \o Substituted(Tail(t), s)

Composed == rendered.err # "not_called"

\* C10 as claimed: a template with the token gives an output that holds the
\* subject exactly once, at the token's position, and not the token; a
\* template without it gives "<subject>. <template>".
C10_Original ==
    Composed =>
        IF Contains(prompt_template, Token)
        THEN /\ rendered.ok
             /\ Occurrences(rendered.text, subject_content) = 1
             /\ ~Contains(rendered.text, Token)
             /\ \E i \in 1..(Len(prompt_template) - 2) :
                 /\ SubSeq(prompt_template, i, i + 2) = Token
                 /\ rendered.text = SubSeq(prompt_template, 1, i - 1) \o subject_content
                        \o SubSeq(prompt_template, i + 3, Len(prompt_template))
        ELSE rendered = Returned(subject_content \o <<".", " ">> \o prompt_template)

\* C10 (amended): when the only braces of a template with the token are those
\* of its tokens, the output is the template with each token replaced by the
\* subject, and it does not hold the token when the subject has no brace; a
\* template without the token gives "<subject>. <template>".
C10_Amended ==
    Composed =>
        IF Contains(prompt_template, Token)
        THEN ~HasBrace(Substituted(prompt_template, <<>>)) =>
                /\ rendered = Returned(Substituted(prompt_template, subject_content))
                /\ ~HasBrace(subject_content) => ~Contains(rendered.text, Token)
        ELSE rendered = Returned(subject_content \o <<".", " ">> \o prompt_template)

\* A template with text before its one token, composed with a subject.
C10_Witness ==
    /\ Composed
    /\ rendered.ok
    /\ Len(prompt_template) > 3
    /\ SubSeq(prompt_template, 2, 4) = Token
    /\ ~HasBrace(<<prompt_template[1]>>)
    /\ subject_content # <<>>
    /\ rendered.text = <<prompt_template[1]>> \o subject_content

----
\* main() got through its setup with --edit given: the credential is set, the
\* style document (if any) loaded and composed, the source image exists.
Editing ==
    /\ pc \in {"dispatch", "returned", "raised"}
    /\ processed_prompts # <<>>
    /\ diag = "none"
    /\ parsed_args.edit

\* The prompt main() makes of the first subject of the command line.
FirstSubjectPrompt ==
    LET style == parsed_args.style
        template == IF style.given THEN load_gemini_style_template(style.doc).text
                    ELSE <<>>
    IN  IF template # <<>>
        THEN apply_subject_to_template(template, parsed_args.prompts[1]).text
        ELSE parsed_args.prompts[1]

\* C11: with --edit and N >= 1 subjects exactly one remote call is issued, an
\* edit request made of the first subject's prompt and the source image; a
\* file is written only to the given output path, never to a numbered one;
\* the subjects after the first make no request, and main() does not fail
\* over them (it raises only when the remote call does).
C11_EditFirstSubjectOnly ==
    Editing =>
        /\ Len(calls) <= 1
        /\ batch_index = 0
        /\ Ended <=> Len(calls) = 1
        /\ \A i \in 1..Len(calls) :
            /\ args.fn = "edit"
            /\ calls[i].api = "generate_content"
            /\ Len(calls[i].contents) >= 2
            /\ calls[i].contents[1] = [text |-> FirstSubjectPrompt]
            /\ calls[i].contents[2] = [image |-> SourcePath]
        /\ Len(writes) <= 1
        /\ \A k \in 1..Len(writes) : writes[k] = [call |-> 1, path |-> OutputPath]
        /\ pc = "raised" => response.error

\* An edit run on several subjects that returned after saving the image.
C11_Witness ==
    /\ Editing
    /\ Len(parsed_args.prompts) > 1
    /\ pc = "returned"
    /\ result = "saved"
    /\ Len(calls) = 1
    /\ writes = <<[call |-> 1, path |-> OutputPath]>>

====
